---- MODULE Spec2Model ----
(***************************************************************************)
(* bika.lims: the JSON API field managers (jsonapi/fieldmanagers.py) and   *)
(* the setup catalog (catalog.py).                                         *)
(*                                                                         *)
(* Two specifications share the module:                                    *)
(*   Spec         get/set on one Archetypes field through its manager      *)
(*   SpecCatalog  BikaSetupCatalog.clearFindAndRebuild and getCatalog      *)
(***************************************************************************)
EXTENDS Integers, Sequences, FiniteSets, TLC

VARIABLES field, stored, last, parent, catalog, rebuilds, catLast

vars == <<field, stored, last, parent, catalog, rebuilds, catLast>>

fieldVars == <<field, stored, last>>
catVars == <<parent, catalog, rebuilds, catLast>>

(***************************************************************************)
(* Bounds                                                                  *)
(***************************************************************************)
\* longest list value handed to ReferenceFieldManager.set
MaxListLen == 2
\* number of content nodes that may live below the portal
MaxNodes == 3
\* clearFindAndRebuild calls in one behaviour
MaxRebuilds == 2

(***************************************************************************)
(* Portal content the reference field can point to.  Object i has the UID, *)
(* the physical path and the catalog brain number i.                       *)
(***************************************************************************)
Content ==
  << [portal_type |-> "Client",  title |-> "A"],
     [portal_type |-> "Contact", title |-> "A"],
     [portal_type |-> "Client",  title |-> "B"] >>

ObjIds == DOMAIN Content

\* the catalog returns its brains in this order
CatalogOrder == [i \in ObjIds |-> i]

(***************************************************************************)
(* Values a field stores / a mutator receives.                             *)
(*   t = "none"      nothing stored yet                                    *)
(*   t = "list"      a Python list of content objects (objs)               *)
(*   t = "obj"       one bare content object, not wrapped in a list        *)
(*   t = "str"       a string (s)                                          *)
(*   t = "int"       a number (n)                                          *)
(*   t = "datetime"  a DateTime object (n = its day number)                *)
(***************************************************************************)
NoneValue == [t |-> "none", objs |-> <<>>, s |-> "", n |-> 0]
RefList(objs) == [t |-> "list", objs |-> objs, s |-> "", n |-> 0]
BareObj(o) == [t |-> "obj", objs |-> <<o>>, s |-> "", n |-> 0]
StrValue(s) == [t |-> "str", objs |-> <<>>, s |-> s, n |-> 0]
IntValue(n) == [t |-> "int", objs |-> <<>>, s |-> "", n |-> n]
DateTimeValue(n) == [t |-> "datetime", objs |-> <<>>, s |-> "", n |-> n]

(***************************************************************************)
(* Inputs of set.  k is the Python shape of the value:                     *)
(*   "uid"   a UID string of object o        "obj"  content object o       *)
(*   "path"  the physical path of object o   "dict" a catalog query; s is  *)
(*   the title it asks for ("" = no title key)                             *)
(*   "str"   a plain string s (neither a UID nor a path)                   *)
(*   "other" something else (the number o)   "list" a list of items        *)
(***************************************************************************)
Item(k, o, s) == [k |-> k, o |-> o, s |-> s]

RefItems ==
  {Item(k, o, "") : k \in {"uid", "obj", "path"}, o \in ObjIds}
    \cup {Item("dict", 0, s) : s \in {"", "A"}}
    \cup {Item("str", 0, s) : s \in {"A", "zzz"}}
    \cup {Item("other", 0, "")}

Lists == UNION {[1..n -> RefItems] : n \in 0..MaxListLen}

Scalar(i) == [k |-> i.k, o |-> i.o, s |-> i.s, items |-> <<>>]
ListInput(l) == [k |-> "list", o |-> 0, s |-> "", items |-> l]

RefInputs == {Scalar(i) : i \in RefItems} \cup {ListInput(l) : l \in Lists}

TextInputs == {Scalar(Item("str", 0, "A")), Scalar(Item("other", 7, ""))}

DateInputs ==
  {Scalar(Item("str", 0, s)) : s \in {"2017-01-01", "2017/01/01", "2017-01-02", "zzz"}}

NoInput == Scalar(Item("none", 0, ""))

(***************************************************************************)
(* bika.lims.jsonapi.api / underscore helpers used by the managers         *)
(***************************************************************************)
is_uid(v) == v.k = "uid"
is_at_content(v) == v.k = "obj"
is_path(v) == v.k = "path"
is_dict(v) == v.k = "dict"
is_list(v) == v.k = "list"
\* isinstance(item, basestring): UIDs and paths are strings too
is_basestring(v) == v.k \in {"uid", "path", "str"}

get_object_by_uid(v) == v.o
get_object_by_path(v) == v.o
get_object(v) == v.o

\* api.search(portal_type=allowed, title=title) followed by map(api.get_object, ...)
search(allowed, title) ==
  SelectSeq(CatalogOrder,
            LAMBDA i : Content[i].portal_type \in allowed
                       /\ (title = "" \/ Content[i].title = title))

(***************************************************************************)
(* Library conversions                                                     *)
(***************************************************************************)
\* DateTime(value): parses a date string; two spellings of a day give the
\* same DateTime; anything else raises SyntaxError (ok = FALSE)
DateTime(v) ==
  CASE v.k = "str" /\ v.s \in {"2017-01-01", "2017/01/01"} -> [ok |-> TRUE, n |-> 20170101]
    [] v.k = "str" /\ v.s = "2017-01-02" -> [ok |-> TRUE, n |-> 20170102]
    [] OTHER -> [ok |-> FALSE, n |-> 0]

Digits == <<"0", "1", "2", "3", "4", "5", "6", "7", "8", "9">>

\* the Python value an input denotes, for the fields that store it as given
AsValue(v) == IF v.k = "str" THEN StrValue(v.s) ELSE IntValue(v.o)

\* str(value)
str(val) == IF val.t = "int" THEN StrValue(Digits[val.n + 1]) ELSE val

(***************************************************************************)
(* Result of one manager call.                                             *)
(*   outcome  "ok" or the exception that left the call                     *)
(*   ret      what set returned: "True", "False", "None", or "raise"       *)
(*   inner    what _set returned: "True", "raise", or "-" (not called)     *)
(*   applied  the mutator was applied, with arg                            *)
(*   ref      the reference value resolved by ReferenceFieldManager.set    *)
(*   rp, wp, wr  result of the read / write permission check and of        *)
(*            field.writeable: "T", "F", or "-" when it was not evaluated  *)
(*   got      what get returned                                            *)
(***************************************************************************)
NoResult ==
  [outcome |-> "ok", ret |-> "-", inner |-> "-", applied |-> FALSE,
   arg |-> NoneValue, ref |-> NoneValue, rp |-> "-", wp |-> "-", wr |-> "-",
   got |-> NoneValue]

(***************************************************************************)
(* ATFieldManager                                                          *)
(***************************************************************************)
\* a mutant: the writeable check is left out
ATFieldManager_set_NoWriteable(name, value, wp, wr) ==
  IF ~wp
  THEN [NoResult EXCEPT !.outcome = "Unauthorized", !.inner = "raise",
                        !.ret = "raise", !.wp = "F"]
  ELSE [NoResult EXCEPT !.inner = "True", !.ret = "True", !.applied = TRUE,
                        !.arg = IF name = "id" THEN str(value) ELSE value,
                        !.wp = "T", !.wr = IF wr THEN "T" ELSE "F"]

\* ATFieldManager._set; ret is set as ATFieldManager.set returns it
ATFieldManager_set(name, value, wp, wr) ==
  IF ~wp
  THEN [NoResult EXCEPT !.outcome = "Unauthorized", !.inner = "raise",
                        !.ret = "raise", !.wp = "F"]
  ELSE IF ~wr
  THEN [NoResult EXCEPT !.outcome = "Unauthorized", !.inner = "raise",
                        !.ret = "raise", !.wp = "T", !.wr = "F"]
  ELSE [NoResult EXCEPT !.inner = "True", !.ret = "True", !.applied = TRUE,
                        !.arg = IF name = "id" THEN str(value) ELSE value,
                        !.wp = "T", !.wr = "T"]

\* ATFieldManager._get
ATFieldManager_get(value, rp) ==
  IF ~rp
  THEN [NoResult EXCEPT !.outcome = "Unauthorized", !.ret = "raise", !.rp = "F"]
  ELSE [NoResult EXCEPT !.ret = "value", !.got = value, !.rp = "T"]

(***************************************************************************)
(* DateTimeFieldManager                                                    *)
(***************************************************************************)
\* a mutant: the raw input, not the DateTime, goes to _set
DateTimeFieldManager_set_Raw(name, v, wp, wr) ==
  IF ~DateTime(v).ok
  THEN [NoResult EXCEPT !.ret = "False"]
  ELSE LET r == ATFieldManager_set(name, AsValue(v), wp, wr)
       IN  [r EXCEPT !.ret = IF r.outcome = "ok" THEN "None" ELSE "raise"]

\* DateTimeFieldManager.set: the result of _set is dropped, set returns None
DateTimeFieldManager_set(name, v, wp, wr) ==
  IF ~DateTime(v).ok
  THEN [NoResult EXCEPT !.ret = "False"]
  ELSE LET r == ATFieldManager_set(name, DateTimeValue(DateTime(v).n), wp, wr)
       IN  [r EXCEPT !.ret = IF r.outcome = "ok" THEN "None" ELSE "raise"]

(***************************************************************************)
(* ReferenceFieldManager                                                   *)
(***************************************************************************)
\* a mutant: the plain-string lookup is tried before the other strategies
ResolveItem_StringFirst(ref, item, allowed) ==
  IF is_basestring(item) THEN ref \o search(allowed, item.s)
  ELSE IF is_uid(item) THEN Append(ref, get_object_by_uid(item))
  ELSE IF is_at_content(item) THEN Append(ref, get_object(item))
  ELSE IF is_path(item) THEN Append(ref, get_object_by_path(item))
  ELSE IF is_dict(item) THEN ref \o search(allowed, item.s)
  ELSE ref

\* one turn of the loop over a list value
ResolveItem(ref, item, allowed) ==
  IF is_uid(item) THEN Append(ref, get_object_by_uid(item))
  ELSE IF is_at_content(item) THEN Append(ref, get_object(item))
  ELSE IF is_path(item) THEN Append(ref, get_object_by_path(item))
  ELSE IF is_dict(item) THEN ref \o search(allowed, item.s)
  ELSE IF is_basestring(item) THEN ref \o search(allowed, item.s)
  ELSE ref

RECURSIVE ResolveList(_, _, _)
\* the loop over a list value, ref being the list built so far
ResolveList(ref, items, allowed) ==
  IF items = <<>>
  THEN ref
  ELSE ResolveList(ResolveItem(ref, Head(items), allowed), Tail(items), allowed)

\* a mutant: a plain string at the top level is looked up by title
Resolve_TopLevelTitle(value, allowed) ==
  LET r0 == <<>>
      r1 == IF is_uid(value) THEN Append(r0, get_object_by_uid(value)) ELSE r0
      r2 == IF is_at_content(value) THEN Append(r1, value.o) ELSE r1
      r3 == IF is_dict(value) THEN search(allowed, value.s) ELSE r2
      r4 == IF is_list(value) THEN ResolveList(r3, value.items, allowed) ELSE r3
      r5 == IF value.k = "str" THEN search(allowed, value.s) ELSE r4
  IN  IF is_path(value) THEN BareObj(get_object_by_path(value)) ELSE RefList(r5)

\* the resolution part of ReferenceFieldManager.set: the value of ref when
\* the cardinality check is reached
Resolve(value, allowed) ==
  LET r0 == <<>>
      r1 == IF is_uid(value) THEN Append(r0, get_object_by_uid(value)) ELSE r0
      r2 == IF is_at_content(value) THEN Append(r1, value.o) ELSE r1
      r3 == IF is_dict(value) THEN search(allowed, value.s) ELSE r2
      r4 == IF is_list(value) THEN ResolveList(r3, value.items, allowed) ELSE r3
  IN  IF is_path(value) THEN BareObj(get_object_by_path(value)) ELSE RefList(r4)

\* len(obj) of a content object: -1 stands for "the type has no __len__"
ObjLens == {-1, 0, 1, 2}

\* a mutant: the test reads multi_valued instead of not multi_valued
CardinalityCheck_Inverted(multi_valued, ref, objlen) ==
  IF ~multi_valued THEN "ok"
  ELSE IF ref.t = "obj"
  THEN (IF objlen < 0 THEN "TypeError" ELSE IF objlen > 1 THEN "ValueError" ELSE "ok")
  ELSE IF Len(ref.objs) > 1 THEN "ValueError" ELSE "ok"

\* not self.multi_valued and len(ref) > 1; objlen is len() of a bare object
CardinalityCheck(multi_valued, ref, objlen) ==
  IF multi_valued THEN "ok"
  ELSE IF ref.t = "obj"
  THEN (IF objlen < 0 THEN "TypeError" ELSE IF objlen > 1 THEN "ValueError" ELSE "ok")
  ELSE IF Len(ref.objs) > 1 THEN "ValueError" ELSE "ok"

\* ReferenceFieldManager.set
ReferenceFieldManager_set(f, value, objlen, wp, wr) ==
  LET ref == Resolve(value, f.allowed_types)
      card == CardinalityCheck(f.multiValued, ref, objlen)
  IN  IF card # "ok"
      THEN [NoResult EXCEPT !.outcome = card, !.ret = "raise", !.ref = ref]
      ELSE [ATFieldManager_set(f.name, ref, wp, wr) EXCEPT !.ref = ref]

(***************************************************************************)
(* The field under the manager                                             *)
(***************************************************************************)
Field(name, type, multi, allowed) ==
  [name |-> name, type |-> type, multiValued |-> multi, allowed_types |-> allowed]

Fields ==
  {Field("title", "text", FALSE, {}), Field("id", "text", FALSE, {}),
   Field("date", "datetime", FALSE, {})}
    \cup {Field("ref", "reference", m, a) :
            m \in BOOLEAN, a \in {{"Client"}, {"Client", "Contact"}}}

Call(op, value, r) == [op |-> op, value |-> value, r |-> r]

\* no call is in progress: the previous one has returned to its caller
Idle == Call("idle", NoInput, NoResult)

\* the mutator replaces the stored value by its argument
Mutate(r) == IF r.applied THEN r.arg ELSE stored

\* field.checkPermission("write", instance) and field.writeable(instance):
\* the second is only evaluated when the first passed
WriteChecks == {<<FALSE, FALSE>>, <<TRUE, FALSE>>, <<TRUE, TRUE>>}

(***************************************************************************)
(* catalog.py: the portal content tree and the setup catalog.              *)
(* parent[n] is the container of node n: 0 is the portal itself, -1 means  *)
(* the node is not in the site (any more).  catalog is the set of nodes    *)
(* bika_setup_catalog has an entry for.                                    *)
(***************************************************************************)
Nodes == 1..MaxNodes

MetaCycle == <<"Department", "Folder", "AnalysisService", "Client">>

\* meta_type of node n
MetaTypeOf(n) == MetaCycle[((n - 1) % Len(MetaCycle)) + 1]

\* obj_metatypes of clearFindAndRebuild
SetupTypes ==
  {"Container", "ContainerType", "Preservation", "Department",
   "AnalysisCategory", "AnalysisService", "AnalysisSpec", "SampleType",
   "SamplePoint", "Instrument", "Method", "AttachmentType", "Calculation",
   "ARProfile", "LabContact", "LabProduct", "ReferenceManufacturer",
   "ReferenceSupplier", "ReferenceDefinition", "WorksheetTemplate"}

\* a container holds its items only: every node lies below an older node
Trees == {p \in [Nodes -> -1..MaxNodes] : \A n \in Nodes : p[n] < n}

RECURSIVE ZopeFindAndApply(_, _, _, _)
\* the objects apply_func is called with: the items of obj whose meta_type is
\* listed and, with search_sub, those found in each item in turn
ZopeFindAndApply(par, obj, obj_metatypes, search_sub) ==
  UNION {(IF MetaTypeOf(c) \in obj_metatypes THEN {c} ELSE {})
           \cup (IF search_sub
                 THEN ZopeFindAndApply(par, c, obj_metatypes, search_sub)
                 ELSE {})
         : c \in {n \in Nodes : par[n] = obj}}

\* a mutant: the catalog is not cleared first
clearFindAndRebuild_NoClear(cat, par) ==
  cat \cup ZopeFindAndApply(par, 0, SetupTypes, TRUE)

\* BikaSetupCatalog.clearFindAndRebuild: the catalog it leaves
clearFindAndRebuild(cat, par) ==
  LET cleared == {}
  IN  cleared \cup ZopeFindAndApply(par, 0, SetupTypes, TRUE)

\* names a name in the body of getCatalog can resolve to
getCatalog_params == {"instance", "field"}
catalog_globals ==
  {"ClassSecurityInfo", "aq_inner", "aq_parent", "InitializeClass",
   "ManagePortal", "getToolByName", "CatalogTool", "base_hasattr",
   "safe_callable", "ZCatalog", "IBikaSetupCatalog", "getUtility",
   "Interface", "implements", "getCatalog", "BikaSetupCatalog"}
builtin_names == {"hasattr", "False", "True", "None"}

\* archetype_tool.catalog_map
catalog_map ==
  [pt \in {"AnalysisService", "Client"} |->
     IF pt = "Client" THEN <<"portal_catalog">>
     ELSE <<"bika_setup_catalog", "portal_catalog">>]

Instances ==
  [portal_type : {"AnalysisService", "Client", "Document"},
   AutoIndex : {"unset", "True", "False"},
   skipped : BOOLEAN]

NoInstance == [portal_type |-> "", AutoIndex |-> "unset", skipped |-> FALSE]

\* getCatalog(instance): the condition of its first statement reads the name
\* self, which is neither a parameter nor a global of the module
getCatalog(instance) ==
  IF "self" \notin getCatalog_params \cup catalog_globals \cup builtin_names
  THEN [outcome |-> "NameError", result |-> "-"]
  ELSE \* hasattr() takes two arguments, it is called with three
       [outcome |-> "TypeError", result |-> "-"]

CatCall(op, before, instance, res) ==
  [op |-> op, before |-> before, instance |-> instance,
   outcome |-> res.outcome, result |-> res.result]

CatIdle == CatCall("idle", {}, NoInstance, [outcome |-> "ok", result |-> "-"])

InitCatalogIdle ==
  /\ parent = [n \in 1..MaxNodes |-> 0]
  /\ catalog = {}
  /\ rebuilds = 0
  /\ catLast = CatIdle

Init ==
  /\ field \in Fields
  /\ stored = NoneValue
  /\ last = Idle
  /\ InitCatalogIdle

\* ATFieldManager.get (every manager inherits it)
Get ==
  /\ last = Idle
  /\ \E rp \in BOOLEAN :
       last' = Call("get", NoInput, ATFieldManager_get(stored, rp))
  /\ UNCHANGED <<field, stored, catVars>>

\* ATFieldManager.set / TextFieldManager.set
SetText ==
  /\ last = Idle
  /\ field.type = "text"
  /\ \E v \in TextInputs, w \in WriteChecks :
       LET r == ATFieldManager_set(field.name, AsValue(v), w[1], w[2])
       IN  /\ last' = Call("set", v, r)
           /\ stored' = Mutate(r)
  /\ UNCHANGED <<field, catVars>>

\* DateTimeFieldManager.set
SetDateTime ==
  /\ last = Idle
  /\ field.type = "datetime"
  /\ \E v \in DateInputs, w \in WriteChecks :
       LET r == DateTimeFieldManager_set(field.name, v, w[1], w[2])
       IN  /\ last' = Call("dtset", v, r)
           /\ stored' = Mutate(r)
  /\ UNCHANGED <<field, catVars>>

\* ReferenceFieldManager.set
SetReference ==
  /\ last = Idle
  /\ field.type = "reference"
  /\ \E v \in RefInputs, w \in WriteChecks :
       \E objlen \in (IF is_path(v) THEN ObjLens ELSE {0}) :
         LET r == ReferenceFieldManager_set(field, v, objlen, w[1], w[2])
         IN  /\ last' = Call("refset", v, r)
             /\ stored' = Mutate(r)
  /\ UNCHANGED <<field, catVars>>

\* the call returns (or its exception reaches the caller)
Return ==
  /\ last # Idle
  /\ last' = Idle
  /\ UNCHANGED <<field, stored, catVars>>

Next == Get \/ SetText \/ SetDateTime \/ SetReference \/ Return

Spec == Init /\ [][Next]_vars

(***************************************************************************)
(* The catalog on its own: any content tree, any catalog entries           *)
(***************************************************************************)
InitCatalog ==
  /\ field = Field("title", "text", FALSE, {})
  /\ stored = NoneValue
  /\ last = Idle
  /\ parent \in Trees
  /\ catalog \in SUBSET Nodes
  /\ rebuilds = 0
  /\ catLast = CatIdle

\* BikaSetupCatalog.clearFindAndRebuild
ClearFindAndRebuild ==
  /\ catLast = CatIdle
  /\ rebuilds < MaxRebuilds
  /\ catalog' = clearFindAndRebuild(catalog, parent)
  /\ rebuilds' = rebuilds + 1
  /\ catLast' = CatCall("rebuild", catalog, NoInstance,
                        [outcome |-> "ok", result |-> "None"])
  /\ UNCHANGED <<parent, fieldVars>>

\* getCatalog
GetCatalog ==
  /\ catLast = CatIdle
  /\ \E instance \in Instances :
       catLast' = CatCall("getCatalog", catalog, instance, getCatalog(instance))
  /\ UNCHANGED <<parent, catalog, rebuilds, fieldVars>>

\* the call returns (or its exception reaches the caller)
ReturnCatalog ==
  /\ catLast # CatIdle
  /\ catLast' = CatIdle
  /\ UNCHANGED <<parent, catalog, rebuilds, fieldVars>>

NextCatalog == ClearFindAndRebuild \/ GetCatalog \/ ReturnCatalog

SpecCatalog == InitCatalog /\ [][NextCatalog]_vars

(***************************************************************************)
(* Properties of the field managers (checked under Spec)                   *)
(***************************************************************************)
ObjsOf(seq) == {seq[i] : i \in DOMAIN seq}

\* the objects of the allowed types with the given title ("" = any title)
Matching(allowed, title) ==
  {o \in ObjIds : Content[o].portal_type \in allowed
                  /\ (title = "" \/ Content[o].title = title)}

\* seq lists exactly the objects of set S, each once, in catalog order
ListsExactly(seq, S) ==
  /\ ObjsOf(seq) = S
  /\ Len(seq) = Cardinality(S)
  /\ \A i, j \in DOMAIN seq : i < j => seq[i] < seq[j]

SetOps == {"set", "dtset", "refset"}

C1_State ==
  last.op = "refset" =>
    /\ ~field.multiValued =>
         /\ last.r.applied => Len(last.r.arg.objs) <= 1
         /\ Len(last.r.ref.objs) > 1 =>
              last.r.outcome = "ValueError" /\ ~last.r.applied
    /\ field.multiValued => last.r.outcome # "ValueError"

\* C1: on a single-valued field ReferenceFieldManager.set never applies the
\* mutator with more than one reference; when the resolution yields more
\* than one object it raises ValueError and the stored value stays as it
\* was; on a multi-valued field it never raises the cardinality error.
C1_Cardinality ==
  /\ []C1_State
  /\ [][(last'.op = "refset" /\ last'.r.outcome = "ValueError")
          => stored' = stored]_vars

\* C1: a single-valued field that holds a reference rejects a two-object
\* resolution
C1_Witness ==
  /\ last.op = "refset" /\ ~field.multiValued
  /\ last.r.outcome = "ValueError" /\ Len(last.r.ref.objs) = 2
  /\ stored.t = "list" /\ Len(stored.objs) = 1

\* C2 as stated: a plain string given to set as the value writes the objects
\* of the allowed types whose title is that string.
C2_Original ==
  (last.op = "refset" /\ last.value.k = "str" /\ last.r.applied)
    => ListsExactly(last.r.arg.objs, Matching(field.allowed_types, last.value.s))

\* C2 amended: a plain string is a title lookup only as an item of a list:
\* the one-element list holding it resolves to the objects of the allowed
\* types with that title, while the bare string itself matches no strategy
\* and the mutator receives the empty list.
C2_TitleLookupOnlyInList ==
  /\ (last.op = "refset" /\ last.value.k = "list" /\ Len(last.value.items) = 1
        /\ last.value.items[1].k = "str")
       => /\ last.r.ref.t = "list"
          /\ ListsExactly(last.r.ref.objs,
                          Matching(field.allowed_types, last.value.items[1].s))
  /\ (last.op = "refset" /\ last.value.k = "str")
       => /\ last.r.ref = RefList(<<>>)
          /\ last.r.applied => last.r.arg = RefList(<<>>)

\* C2: the bare string "A", which is the title of an allowed object, has
\* been written as the empty list
C2_Witness ==
  /\ last.op = "refset" /\ last.value.k = "str" /\ last.value.s = "A"
  /\ Matching(field.allowed_types, "A") # {}
  /\ last.r.applied /\ stored = RefList(<<>>)

\* C3: for a UID, an object, a dict query, a list and a path alike, the
\* mutator receives a list whose elements are all resolved content objects.
C3_NormalizedToList ==
  (last.op = "refset" /\ last.r.applied
     /\ last.value.k \in {"uid", "obj", "dict", "list", "path"})
    => /\ last.r.arg.t = "list"
       /\ \A i \in DOMAIN last.r.arg.objs : last.r.arg.objs[i] \in ObjIds

C4_State ==
  /\ last.op = "get" =>
       /\ last.r.rp = "F" =>
            last.r.outcome = "Unauthorized" /\ last.r.got = NoneValue
       /\ last.r.rp = "T" => last.r.outcome = "ok" /\ last.r.got = stored
  /\ last.op \in SetOps =>
       /\ (last.r.wp = "F" \/ last.r.wr = "F") =>
            last.r.outcome = "Unauthorized" /\ ~last.r.applied
       /\ last.r.applied =>
            last.r.wp = "T" /\ last.r.wr = "T" /\ last.r.inner = "True"
  /\ (last.op \in {"set", "refset"} /\ last.r.applied) => last.r.ret = "True"

RECURSIVE ExpectedRefs(_, _)
\* the concatenation, in item order, of what each item stands for
ExpectedRefs(items, allowed) ==
  IF items = <<>>
  THEN <<>>
  ELSE LET item == items[Len(items)]
           one == CASE item.k \in {"uid", "obj", "path"} -> {<<item.o>>}
                    [] item.k \in {"dict", "str"} ->
                         {q \in UNION {[1..n -> ObjIds] : n \in 0..Len(Content)} :
                            ListsExactly(q, Matching(allowed, item.s))}
                    [] OTHER -> {<<>>}
       IN  ExpectedRefs(SubSeq(items, 1, Len(items) - 1), allowed)
             \o (CHOOSE q \in one : TRUE)

\* C7: for a list value each item is resolved by the first strategy that
\* matches it (UID, object, path, dict query, title string), the results are
\* concatenated in item order with duplicates kept, and an item matching no
\* strategy contributes nothing and raises nothing.
C7_ListResolution ==
  (last.op = "refset" /\ last.value.k = "list")
    => /\ last.r.ref = RefList(ExpectedRefs(last.value.items, field.allowed_types))
       /\ last.r.outcome \in {"ok", "ValueError", "Unauthorized"}
       /\ last.r.outcome = "ValueError"
            => ~field.multiValued /\ Len(last.r.ref.objs) > 1

\* C7: a list of a UID and a title string that repeats the UID's object,
\* written with the duplicate kept
C7_Witness ==
  /\ last.op = "refset" /\ last.value.k = "list" /\ Len(last.value.items) = 2
  /\ last.value.items[1].k = "uid" /\ last.value.items[2].k = "str"
  /\ last.r.applied /\ stored = RefList(<<1, 1>>)

\* C8: every object written into a reference field has a portal type among
\* the field's allowed_types.
C8_AllowedTypesOnly ==
  (last.op = "refset" /\ last.r.applied)
    => \A o \in ObjsOf(last.r.arg.objs) :
         Content[o].portal_type \in field.allowed_types

C9_State ==
  last.op = "dtset" =>
    /\ ~DateTime(last.value).ok =>
         /\ last.r.ret = "False" /\ last.r.outcome = "ok" /\ ~last.r.applied
         /\ last.r.wp = "-" /\ last.r.wr = "-"
    /\ DateTime(last.value).ok =>
         /\ last.r.wp # "-"
         /\ last.r.applied <=> (last.r.wp = "T" /\ last.r.wr = "T")
         /\ ~last.r.applied => last.r.outcome = "Unauthorized"
         /\ last.r.applied =>
              /\ last.r.arg = DateTimeValue(DateTime(last.value).n)
              /\ last.r.arg # AsValue(last.value)

RECURSIVE UnderPortal(_)
\* node n is the portal's item or lies in one that is below the portal
UnderPortal(n) == parent[n] = 0 \/ (parent[n] > 0 /\ UnderPortal(parent[n]))

SetupObjects == {n \in Nodes : UnderPortal(n) /\ MetaTypeOf(n) \in SetupTypes}

\* C5: after clearFindAndRebuild the catalog holds exactly the objects below
\* the portal, at any depth, whose meta type is one of the twenty listed;
\* what was indexed before and is no such object is gone; a second call in a
\* row leaves the catalog as the first did.
C5_Rebuild ==
  /\ [](Cardinality(SetupTypes) = 20)
  /\ [](catLast.op = "rebuild" => catalog = SetupObjects)
  /\ [][(catLast'.op = "rebuild" /\ rebuilds >= 1) => catalog' = catalog]_vars

\* C5: a rebuild has dropped a stale entry and has found a setup object
\* lying in a container that is no setup type
C5_Witness ==
  /\ catLast.op = "rebuild"
  /\ catLast.before \ catalog # {}
  /\ \E n \in catalog : parent[n] > 0 /\ MetaTypeOf(parent[n]) \notin SetupTypes

\* what getCatalog is documented to return
GetCatalogExpected(instance) ==
  IF instance.AutoIndex = "False" \/ instance.skipped
  THEN "None"
  ELSE IF instance.portal_type \in DOMAIN catalog_map
  THEN catalog_map[instance.portal_type][1]
  ELSE "portal_catalog"

\* C6: getCatalog(instance) completes for every instance, with the first
\* catalog of catalog_map for its portal type, or portal_catalog, or None
\* when AutoIndex is False or the UID is in the workflow skiplist.
C6_GetCatalog ==
  catLast.op = "getCatalog"
    => /\ catLast.outcome = "ok"
       /\ catLast.result = GetCatalogExpected(catLast.instance)

====
